---- MODULE Spec2Model ----
(***************************************************************************)
(* kops-autoscaler-openstack: the reconciliation loop that runs            *)
(* `kops update cluster` as a dry run and, when the plan holds an instance *)
(* change, runs it again with --yes.                                       *)
(*                                                                         *)
(* The repository holds three generations of the controller.  The variable *)
(* impl says which one a behaviour runs:                                   *)
(*   "start"      src/pkg/cmd/start.go      Execute / validate / Run       *)
(*   "part000"    src/unnamed/part_000      main / parseFlags / loopUntil  *)
(*   "autoscaler" src/autoscaler.go         main / parseFlags / loopUntil  *)
(* Strings that the code inspects (type names, task keys) are sequences of *)
(* characters, so that strings.HasPrefix and getTaskName are computed.     *)
(***************************************************************************)
EXTENDS Naturals, Integers, Sequences, FiniteSets, TLC

VARIABLES
    impl,       \* which generation of the controller runs
    pc,         \* position of the process: "main", the loop steps, "exited"
    opts,       \* the start options (flags), fixed after the start
    applyCmd,   \* the controller's ApplyCmd (*cloudup.ApplyClusterCmd) or NULL
    store,      \* the state store: the instance group as declared
    cloud,      \* the cloud: servers by name, and the security group's drift
    calls,      \* the external calls of the current iteration, in order
    prevUpdate, \* how update ended in the iteration before: "none", "ok", "failed"
    log,        \* what the current iteration has reported, in order
    env,        \* the environment variables of the process
    exitCode,   \* the exit code of the process, 0 while it runs
    shutdown    \* a shutdown of the process has been requested

vars == <<impl, pc, opts, applyCmd, store, cloud, calls, prevUpdate, log, env, exitCode,
          shutdown>>

----------------------------------------------------------------------------
(* Bounds *)

\* the largest MinSize an instance group declares
MaxSize == 2
\* the most servers the cloud holds under one name
MaxSameName == 2

----------------------------------------------------------------------------
(* Values *)

\* a nil pointer
NULL == [nil |-> TRUE]
\* a nil error
NoError == "nil"

Impls == {"start", "part000", "autoscaler"}

TargetDryRun == "dryrun"
TargetDirect == "direct"

\* "Instance", the prefix both classifiers look for
InstancePrefix == <<"I", "n", "s", "t", "a", "n", "c", "e">>
\* "Instance/", the prefix of a task key
InstanceKeyPrefix == <<"I", "n", "s", "t", "a", "n", "c", "e", "/">>

\* the Go type names of the tasks, as fmt.Sprintf("%T", t) prints them
InstanceGoType ==
    <<"*", "o", "p", "e", "n", "s", "t", "a", "c", "k", "t", "a", "s", "k", "s", ".",
      "I", "n", "s", "t", "a", "n", "c", "e">>
SecurityGroupGoType ==
    <<"*", "o", "p", "e", "n", "s", "t", "a", "c", "k", "t", "a", "s", "k", "s", ".",
      "S", "e", "c", "u", "r", "i", "t", "y", "G", "r", "o", "u", "p">>

Digits == <<"1", "2", "3", "4", "5", "6", "7", "8", "9">>

\* the name of the i-th instance of the instance group
InstanceName(i) == <<"n", Digits[i]>>
InstanceNames == {InstanceName(i) : i \in 1..MaxSize}

InstanceTask(i) == [goType |-> InstanceGoType, name |-> InstanceName(i)]
SecurityGroupTask == [goType |-> SecurityGroupGoType, name |-> <<"s", "g">>]

----------------------------------------------------------------------------
(* Strings *)

\* strings.HasPrefix
HasPrefix(s, prefix) ==
    /\ Len(s) >= Len(prefix)
    /\ SubSeq(s, 1, Len(prefix)) = prefix

\* strings.LastIndexByte, 1-based; 0 where Go returns -1
LastIndexByte(s, c) ==
    IF \E i \in 1..Len(s) : s[i] = c
    THEN CHOOSE i \in 1..Len(s) : s[i] = c /\ \A j \in (i+1)..Len(s) : s[j] # c
    ELSE 0

\* getTaskName: the type name after the last dot
getTaskName(t) ==
    LET s == t.goType
        lastDot == LastIndexByte(s, ".")
    IN IF lastDot # 0 THEN SubSeq(s, lastDot + 1, Len(s)) ELSE s

\* the key of a task in ApplyCmd.TaskMap: "<type name>/<name>"
TaskKey(t) == getTaskName(t) \o <<"/">> \o t.name

\* every ordering of a finite set, as sequences
Orderings(S) ==
    {s \in [1..Cardinality(S) -> S] : \A i, j \in 1..Cardinality(S) : s[i] = s[j] => i = j}

----------------------------------------------------------------------------
(* The instance task (openstacktasks.Instance) *)

\* servers.List with the name of the instance, all pages, extracted: the
\* servers of that name, each with its own ID
ServerList(name, servers) ==
    [i \in 1..servers[name] |-> [ID |-> name \o <<"-", Digits[i]>>, Name |-> name]]

\* a Find that never finds the server
FindNothing(e, servers) == [actual |-> NULL, err |-> FALSE, id |-> NULL]

\* a Find that takes the first server when the name has several
FindPicksFirst(e, servers) ==
    LET serverList == ServerList(e.name, servers)
    IN IF Len(serverList) = 0 THEN [actual |-> NULL, err |-> FALSE, id |-> NULL]
       ELSE [actual |-> [ID |-> serverList[1].ID, Name |-> serverList[1].Name],
             err |-> FALSE, id |-> serverList[1].ID]

\* Instance.Find: the live server of the desired instance e, by name; id is
\* what the call leaves in e.ID, which the planner builds unset
Find(e, servers) ==
    LET serverList == ServerList(e.name, servers)
    IN IF Len(serverList) = 0 THEN [actual |-> NULL, err |-> FALSE, id |-> NULL]
       ELSE IF Len(serverList) > 1 THEN [actual |-> NULL, err |-> TRUE, id |-> NULL]
       ELSE LET server == serverList[1]
            IN [actual |-> [ID |-> server.ID, Name |-> server.Name],
                err |-> FALSE, id |-> server.ID]

\* Instance.ShouldCreate
ShouldCreate(a) == a = NULL

\* Instance.RenderOpenstack on the direct target: a server is created only
\* where no actual instance was found
RenderOpenstack(a, e, servers) ==
    IF a = NULL THEN [servers EXCEPT ![e.name] = @ + 1] ELSE servers

----------------------------------------------------------------------------
(* The planner: cloudup.ApplyClusterCmd.Run *)

\* the tasks the planner builds from the command's snapshot: one instance
\* per declared member of the instance group, and the security group
InstanceTasksOf(cmd) == {InstanceTask(i) : i \in 1..cmd.InstanceGroups[1].MinSize}
TasksOf(cmd) == InstanceTasksOf(cmd) \cup {SecurityGroupTask}

\* ApplyCmd.TaskMap after Run: every task under its key, changed or not
TaskMapOf(cmd) == {TaskKey(t) : t \in TasksOf(cmd)}

\* the tasks that Run finds to differ from the cloud
ChangedTasks(cmd, c) ==
    {t \in InstanceTasksOf(cmd) : ShouldCreate(Find(t, c.servers).actual)
                                  /\ ~Find(t, c.servers).err}
      \cup (IF c.sgDrift THEN {SecurityGroupTask} ELSE {})

\* a task of the plan whose Find fails makes Run fail
FindFails(cmd, c) == \E t \in InstanceTasksOf(cmd) : Find(t, c.servers).err

\* the cloud after the direct target has rendered the tasks of done
RECURSIVE RenderAll(_, _)
RenderAll(done, c) ==
    IF done = {} THEN c
    ELSE LET t == CHOOSE x \in done : TRUE
             c1 == IF t = SecurityGroupTask
                   THEN [c EXCEPT !.sgDrift = FALSE]
                   ELSE [c EXCEPT !.servers =
                             RenderOpenstack(Find(t, c.servers).actual, t, c.servers)]
         IN RenderAll(done \ {t}, c1)

\* fi.DryRunTarget.HasChanges
HasChanges(target) == Len(target.changes) # 0

\* fi.DryRunTarget.Changes
Changes(target) == target.changes

----------------------------------------------------------------------------
(* The classifier: the decision of dryRun once the dry run has succeeded *)

\* a scan that looks at the first change of the plan only
ScanChangesFirstOnly(changes) ==
    IF changes = <<>> THEN FALSE
    ELSE HasPrefix(getTaskName(Head(changes)), InstancePrefix)

\* src/unnamed/part_000: the first change whose type name begins "Instance"
RECURSIVE ScanChanges(_)
ScanChanges(changes) ==
    IF changes = <<>> THEN FALSE
    ELSE IF HasPrefix(getTaskName(Head(changes)), InstancePrefix) THEN TRUE
    ELSE ScanChanges(Tail(changes))

dryRunDecisionPart000(cmd) ==
    IF HasChanges(cmd.Target) THEN ScanChanges(Changes(cmd.Target)) ELSE FALSE

\* src/autoscaler.go: any key of the whole task map that begins "Instance/"
dryRunDecisionAutoscaler(cmd) ==
    IF HasChanges(cmd.Target)
    THEN \E k \in cmd.TaskMap : HasPrefix(k, InstanceKeyPrefix)
    ELSE FALSE

\* src/pkg/cmd/start.go: the scan is commented out
dryRunDecisionStart(cmd) ==
    IF HasChanges(cmd.Target) THEN FALSE ELSE FALSE

\* a decision that forgets to ask HasChanges and looks at the task map alone
dryRunDecisionNoHasChanges(i, cmd) ==
    \E k \in cmd.TaskMap : HasPrefix(k, InstanceKeyPrefix)

dryRunDecision(i, cmd) ==
    CASE i = "start" -> dryRunDecisionStart(cmd)
      [] i = "part000" -> dryRunDecisionPart000(cmd)
      [] i = "autoscaler" -> dryRunDecisionAutoscaler(cmd)

----------------------------------------------------------------------------
(* Start options and validate (src/pkg/cmd/start.go) *)

S3Scheme == <<"s", "3", ":", "/", "/">>
DoScheme == <<"d", "o", ":", "/", "/">>
\* the value validate gives KOPS_FEATURE_FLAGS
FeatureFlags == <<"A", "l", "p", "h", "a", "A", "l", "l", "o", "w", "O", "p", "e", "n", "s", "t", "a", "c", "k", ",", "+", "E", "n", "a", "b", "l", "e", "E", "x", "t", "e", "r", "n", "a", "l", "C", "l", "o", "u", "d", "C", "o", "n", "t", "r", "o", "l", "l", "e", "r">>

DefaultSleep == 45
Part000Sleep == 60
AutoscalerSleep == 10

ErrName == "Please set NAME to env variable or as start flag"
ErrStateStore == "Please set KOPS_STATE_STORE to env variable or as start flag"
ErrAccessKey == "Please set S3_ACCESS_KEY_ID to env variable or as start flag"
ErrSecretKey == "Please set S3_SECRET_ACCESS_KEY to env variable or as start flag"

EmptyEnv ==
    [KOPS_STATE_STORE |-> <<>>, S3_ACCESS_KEY_ID |-> <<>>,
     S3_SECRET_ACCESS_KEY |-> <<>>, KOPS_FEATURE_FLAGS |-> <<>>]

\* a last step that sets KOPS_FEATURE_FLAGS whatever it holds
validateFeatureFlagsOverwrite(e) ==
    [err |-> NoError, env |-> [e EXCEPT !.KOPS_FEATURE_FLAGS = FeatureFlags]]

\* the last step of validate: KOPS_FEATURE_FLAGS is filled when empty
validateFeatureFlags(e) ==
    [err |-> NoError,
     env |-> IF e.KOPS_FEATURE_FLAGS = <<>>
             THEN [e EXCEPT !.KOPS_FEATURE_FLAGS = FeatureFlags] ELSE e]

\* a validate that asks for the keys whatever the state store is
validateKeysAlways(options, e) ==
    IF options.ClusterName = <<>> THEN [err |-> ErrName, env |-> e]
    ELSE IF options.StateStore = <<>> THEN [err |-> ErrStateStore, env |-> e]
    ELSE IF options.AccessKey = <<>>
    THEN [err |-> ErrAccessKey,
          env |-> IF e.KOPS_STATE_STORE = <<>>
                  THEN [e EXCEPT !.KOPS_STATE_STORE = options.StateStore] ELSE e]
    ELSE IF options.SecretKey = <<>>
    THEN [err |-> ErrSecretKey,
          env |-> [e EXCEPT !.KOPS_STATE_STORE =
                              IF @ = <<>> THEN options.StateStore ELSE @,
                            !.S3_ACCESS_KEY_ID =
                              IF @ = <<>> THEN options.AccessKey ELSE @]]
    ELSE validateFeatureFlags(
           [e EXCEPT !.KOPS_STATE_STORE = IF @ = <<>> THEN options.StateStore ELSE @,
                     !.S3_ACCESS_KEY_ID = IF @ = <<>> THEN options.AccessKey ELSE @,
                     !.S3_SECRET_ACCESS_KEY = IF @ = <<>> THEN options.SecretKey ELSE @])

\* validate: the error it returns (NoError for nil) and the environment it leaves
validate(options, e) ==
    IF options.ClusterName = <<>> THEN [err |-> ErrName, env |-> e]
    ELSE IF options.StateStore = <<>> THEN [err |-> ErrStateStore, env |-> e]
    ELSE
      LET e1 == IF e.KOPS_STATE_STORE = <<>> /\ options.StateStore # <<>>
                THEN [e EXCEPT !.KOPS_STATE_STORE = options.StateStore] ELSE e
      IN IF HasPrefix(options.StateStore, S3Scheme) \/ HasPrefix(options.StateStore, DoScheme)
         THEN IF options.AccessKey = <<>> THEN [err |-> ErrAccessKey, env |-> e1]
              ELSE
                LET e2 == IF e1.S3_ACCESS_KEY_ID = <<>> /\ options.AccessKey # <<>>
                          THEN [e1 EXCEPT !.S3_ACCESS_KEY_ID = options.AccessKey] ELSE e1
                IN IF options.SecretKey = <<>> THEN [err |-> ErrSecretKey, env |-> e2]
                   ELSE
                     LET e3 == IF e2.S3_SECRET_ACCESS_KEY = <<>> /\ options.SecretKey # <<>>
                               THEN [e2 EXCEPT !.S3_SECRET_ACCESS_KEY = options.SecretKey]
                               ELSE e2
                     IN validateFeatureFlags(e3)
         ELSE validateFeatureFlags(e1)

\* the options a behaviour starts with
S3Store == S3Scheme \o <<"b">>
LocalStore == <<"/", "s">>
Options(n, st, ak, sk, d) ==
    [ClusterName |-> n, StateStore |-> st, AccessKey |-> ak, SecretKey |-> sk, Sleep |-> d]
StartOptions ==
    { Options(<<"c">>, S3Store, <<"k">>, <<"k">>, DefaultSleep),
      Options(<<"c">>, LocalStore, <<>>, <<>>, 0),
      Options(<<>>, S3Store, <<"k">>, <<"k">>, DefaultSleep),
      Options(<<"c">>, <<>>, <<"k">>, <<"k">>, DefaultSleep),
      Options(<<"c">>, S3Store, <<>>, <<"k">>, DefaultSleep),
      Options(<<"c">>, S3Store, <<"k">>, <<>>, DefaultSleep) }
FlagOptions(d) ==
    { Options(n, LocalStore, <<>>, <<>>, d) : n \in {<<>>, <<"c">>} }

----------------------------------------------------------------------------
(* The state store and updateApplyCmd *)

\* the instance group of the cluster, of a fixed size: its MinSize and its
\* MaxSize are both k
InstanceGroup(k) == [MinSize |-> k, MaxSize |-> k]

FetchOutcomes == {"ok", "GetClusterError", "ListError"}

\* an external call as the iteration records it: the operation, the target and
\* mode of a planner Run, the seconds of a Sleep, the set of changes a dry run
\* returned, and whether the call returned an error
Call(op, target, dryRun, d, plan, err) ==
    [op |-> op, target |-> target, dryRun |-> dryRun, d |-> d, plan |-> plan, err |-> err]

\* the calls updateApplyCmd makes to the state store: the list is asked for
\* only once the cluster has been retrieved
FetchCalls(r) ==
    IF r = "GetClusterError"
    THEN <<Call("GetCluster", "", FALSE, 0, {}, TRUE)>>
    ELSE <<Call("GetCluster", "", FALSE, 0, {}, FALSE),
           Call("List", "", FALSE, 0, {}, r = "ListError")>>

\* the ApplyClusterCmd built from a fetched cluster and its instance groups
NewApplyCmd(o, st) ==
    [Cluster |-> o.ClusterName,
     InstanceGroups |-> <<st>>,
     TargetName |-> TargetDryRun,
     DryRun |-> FALSE,
     RunTasksOptions |-> NULL,
     Target |-> NULL,
     TaskMap |-> {}]

\* an updateApplyCmd that stores a command without instance groups when the
\* cluster was retrieved and the list failed
updateApplyCmdPartial(r, cur, o, st) ==
    IF r = "ok" THEN NewApplyCmd(o, st)
    ELSE IF r = "ListError" THEN NewApplyCmd(o, InstanceGroup(0))
    ELSE cur

\* updateApplyCmd: the controller's ApplyCmd when it returns
updateApplyCmd(r, cur, o, st) == IF r = "ok" THEN NewApplyCmd(o, st) ELSE cur

----------------------------------------------------------------------------
(* Init *)

Init ==
    /\ impl \in Impls
    /\ pc = "main"
    /\ opts \in (CASE impl = "start" -> StartOptions
                   [] impl = "part000" -> FlagOptions(Part000Sleep)
                   [] impl = "autoscaler" -> FlagOptions(AutoscalerSleep))
    /\ applyCmd = NULL
    /\ store \in {InstanceGroup(k) : k \in 0..MaxSize}
    /\ cloud \in [servers : [InstanceNames -> 0..MaxSameName], sgDrift : BOOLEAN]
    /\ calls = <<>>
    /\ prevUpdate = "none"
    /\ log = <<>>
    /\ env = EmptyEnv
    /\ exitCode = 0
    /\ shutdown = FALSE

----------------------------------------------------------------------------
(* Start of the process *)

\* a line of output: glog.Infof, glog.Errorf, or fmt.Fprintf(os.Stderr, ...)
Info(msg) == [stream |-> "glog.Info", msg |-> msg]
Stderr(msg) == [stream |-> "stderr", msg |-> msg]

\* how the loop reports the error of a step: start.go logs it with glog.Errorf
\* under a heading, part_000 and autoscaler.go print the error to stderr
ReportError(i, heading, errText) ==
    IF i = "start" THEN [stream |-> "glog.Error", msg |-> heading] ELSE Stderr(errText)

\* the line is the report of an error
IsErrorLine(l) == l.stream \in {"glog.Error", "stderr"}

\* the error text of a failed fetch
FetchErrorText(r) ==
    IF r = "GetClusterError" THEN "error initializing cluster" ELSE "instance group list error"

\* fmt.Fprintf(os.Stderr, ...) ; os.Exit(1)
Exit(msg) ==
    /\ pc' = "exited"
    /\ exitCode' = 1
    /\ log' = Append(log, Stderr(msg))

\* src/pkg/cmd/start.go: Execute runs validate, then Run up to its loop
Execute ==
    /\ impl = "start"
    /\ pc = "main"
    /\ LET v == validate(opts, env)
       IN /\ env' = v.env
          /\ IF v.err # NoError
             THEN Exit(v.err)
             ELSE \E pathErr \in BOOLEAN :
                    IF pathErr
                    THEN Exit("error parsing registry path")
                    ELSE pc' = "sleep" /\ UNCHANGED <<exitCode, log>>
    /\ UNCHANGED <<shutdown, impl, opts, applyCmd, store, cloud, calls, prevUpdate>>

\* src/unnamed/part_000: main runs parseFlags, which ends in updateApplyCmd
MainPart000 ==
    /\ impl = "part000"
    /\ pc = "main"
    /\ \E pathErr \in BOOLEAN, r \in FetchOutcomes :
         IF pathErr
         THEN Exit("error parsing registry path") /\ UNCHANGED <<applyCmd, calls>>
         ELSE IF opts.ClusterName = <<>>
         THEN Exit("Must pass NAME environment variable") /\ UNCHANGED <<applyCmd, calls>>
         ELSE /\ applyCmd' = updateApplyCmd(r, applyCmd, opts, store)
              /\ calls' = FetchCalls(r)
              /\ IF r # "ok"
                 THEN Exit(FetchErrorText(r))
                 ELSE pc' = "sleep" /\ UNCHANGED <<exitCode, log>>
    /\ UNCHANGED <<shutdown, impl, opts, store, cloud, prevUpdate, env>>

\* src/autoscaler.go: main runs parseFlags, which fetches the cluster and
\* its instance groups and builds the ApplyCmd, once
MainAutoscaler ==
    /\ impl = "autoscaler"
    /\ pc = "main"
    /\ \E pathErr \in BOOLEAN, r \in FetchOutcomes :
         IF pathErr
         THEN Exit("error parsing registry path") /\ UNCHANGED <<applyCmd, calls>>
         ELSE IF opts.ClusterName = <<>>
         THEN Exit("Must pass NAME environment variable") /\ UNCHANGED <<applyCmd, calls>>
         ELSE /\ calls' = FetchCalls(r)
              /\ IF r # "ok"
                 THEN Exit(FetchErrorText(r)) /\ UNCHANGED applyCmd
                 ELSE /\ applyCmd' = NewApplyCmd(opts, store)
                      /\ pc' = "sleep"
                      /\ UNCHANGED <<exitCode, log>>
    /\ UNCHANGED <<shutdown, impl, opts, store, cloud, prevUpdate, env>>

----------------------------------------------------------------------------
(* The loop: Run (start.go), loopUntil (part_000, autoscaler.go) *)

\* the positions of the loop: before time.Sleep returns, at the call of a
\* method of the loop, and inside that method until it returns
CallPcs == {"updateApplyCmd", "dryRun", "update"}
InCallPcs == {"inUpdateApplyCmd", "inDryRun", "inUpdate"}
LoopPcs == {"sleep"} \cup CallPcs \cup InCallPcs

\* a loop that starts update without waiting for it (`go osASG.update()`)
InCallUpdateAsync(p) ==
    CASE p = "updateApplyCmd" -> "inUpdateApplyCmd"
      [] p = "dryRun" -> "inDryRun"
      [] p = "update" -> "sleep"

\* the calls of the loop are plain method calls: the one goroutine of the
\* process is inside the callee until the callee returns
InCall(p) ==
    CASE p = "updateApplyCmd" -> "inUpdateApplyCmd"
      [] p = "dryRun" -> "inDryRun"
      [] p = "update" -> "inUpdate"

\* the interval of time.Sleep
SleepSeconds == IF impl = "start" THEN opts.Sleep
                ELSE IF impl = "part000" THEN Part000Sleep ELSE AutoscalerSleep

\* a loop without the `continue` after a failed updateApplyCmd
AfterUpdateApplyCmdNoContinue(err) == "dryRun"

\* a loop that calls update right after updateApplyCmd, without a dry run
AfterUpdateApplyCmdSkipDryRun(err) == IF err THEN "sleep" ELSE "update"

\* where the loop goes after updateApplyCmd: `continue` on an error
AfterUpdateApplyCmd(err) == IF err THEN "sleep" ELSE "dryRun"

\* a loop that calls update after every dry run that returned
AfterDryRunAlwaysUpdate(err, needsUpdate) == IF err THEN "sleep" ELSE "update"

\* a loop that falls through to update when dryRun returned an error
AfterDryRunIgnoreErr(err, needsUpdate) ==
    IF err \/ needsUpdate THEN "update" ELSE "sleep"

\* a loop that returns to its caller when dryRun returned an error
AfterDryRunReturnErr(err, needsUpdate) ==
    IF err THEN "exited" ELSE IF needsUpdate THEN "update" ELSE "sleep"

\* where the loop goes after dryRun: `continue` on an error, update only
\* when dryRun said so
AfterDryRun(err, needsUpdate) ==
    IF err THEN "sleep" ELSE IF needsUpdate THEN "update" ELSE "sleep"

\* a loop that returns the error of update to its caller
AfterUpdateReturnErr(err) == IF err THEN "exited" ELSE "sleep"

\* an update that is still held as running after its apply has failed
AfterUpdateHeldOnErr(err) == IF err THEN "inUpdate" ELSE "sleep"

\* where the loop goes after update: the error is reported, the loop goes on
AfterUpdate(err) == "sleep"

\* how update ended in an iteration with these calls
UpdateOutcome(cs) ==
    IF \E i \in 1..Len(cs) : cs[i].op = "Run" /\ ~cs[i].dryRun
    THEN IF \E i \in 1..Len(cs) : cs[i].op = "Run" /\ ~cs[i].dryRun /\ cs[i].err
         THEN "failed" ELSE "ok"
    ELSE "none"

\* time.Sleep returns: a new iteration starts
Sleep ==
    /\ pc = "sleep"
    /\ prevUpdate' = UpdateOutcome(calls)
    /\ calls' = <<Call("Sleep", "", FALSE, SleepSeconds, {}, FALSE)>>
    /\ log' = IF impl \in {"start", "part000"} THEN <<Info("Executing...")>> ELSE <<>>
    /\ pc' = IF impl = "autoscaler" THEN "dryRun" ELSE "updateApplyCmd"
    /\ UNCHANGED <<shutdown, impl, opts, applyCmd, store, cloud, env, exitCode>>

\* the loop calls the method it has reached
Invoke ==
    /\ pc \in CallPcs
    /\ pc' = InCall(pc)
    /\ UNCHANGED <<shutdown, impl, opts, applyCmd, store, cloud, calls, prevUpdate, log, env, exitCode>>

\* updateApplyCmd returns (start.go, part_000)
UpdateApplyCmd ==
    /\ pc = "inUpdateApplyCmd"
    /\ \E r \in FetchOutcomes :
         /\ applyCmd' = updateApplyCmd(r, applyCmd, opts, store)
         /\ calls' = calls \o FetchCalls(r)
         /\ log' = IF r # "ok"
                   THEN Append(log, ReportError(impl, "Error updating applycmd",
                                                FetchErrorText(r)))
                   ELSE log
         /\ pc' = AfterUpdateApplyCmd(r # "ok")
    /\ UNCHANGED <<shutdown, impl, opts, store, cloud, prevUpdate, env, exitCode>>

\* a dryRun that also resets the size of the instance group of the command
dryRunModeResetsGroups(cmd) ==
    [cmd EXCEPT !.TargetName = TargetDryRun, !.DryRun = TRUE,
                !.InstanceGroups = <<[MinSize |-> 0, MaxSize |-> 0]>>]

\* a dryRun that runs the command in the mode it finds it in
dryRunModeKept(cmd) == cmd

\* the fields dryRun sets before it calls Run
dryRunMode(cmd) == [cmd EXCEPT !.TargetName = TargetDryRun, !.DryRun = TRUE]

\* an update that reads the instance groups from the state store again
updateModeRefetch(cmd) ==
    [cmd EXCEPT !.TargetName = TargetDirect, !.DryRun = FALSE,
                !.RunTasksOptions = [InitDefaults |-> TRUE],
                !.InstanceGroups = <<store>>]

\* the fields update sets before it calls Run
updateMode(cmd) ==
    [cmd EXCEPT !.TargetName = TargetDirect, !.DryRun = FALSE,
                !.RunTasksOptions = [InitDefaults |-> TRUE]]

\* dryRun returns: Run on the dry-run target, then the decision
DryRun ==
    /\ pc = "inDryRun"
    /\ applyCmd # NULL
    /\ LET cmd0 == dryRunMode(applyCmd)
       IN \E fail \in BOOLEAN, plan \in Orderings(ChangedTasks(cmd0, cloud)) :
            LET err == fail \/ FindFails(cmd0, cloud)
                cmd1 == IF err THEN cmd0
                        ELSE [cmd0 EXCEPT !.Target = [kind |-> "DryRunTarget", changes |-> plan],
                                          !.TaskMap = TaskMapOf(cmd0)]
                needsUpdate == IF err THEN FALSE ELSE dryRunDecision(impl, cmd1)
            IN /\ applyCmd' = cmd1
               /\ calls' = Append(calls, Call("Run", cmd0.TargetName, cmd0.DryRun, 0,
                                               IF err THEN {}
                                               ELSE {plan[j] : j \in 1..Len(plan)},
                                               err))
               /\ log' = IF err
                         THEN Append(log, ReportError(impl, "Error running dryrun",
                                                      "dry run error"))
                         ELSE IF needsUpdate
                         THEN Append(log, Info("Found instance in tasks running update --yes"))
                         ELSE log
               /\ pc' = AfterDryRun(err, needsUpdate)
    /\ UNCHANGED <<shutdown, impl, opts, store, cloud, prevUpdate, env, exitCode>>

\* an update that runs the apply a second time when it has failed
updateCallsRetry(cmd, err) ==
    IF err
    THEN <<Call("Run", cmd.TargetName, cmd.DryRun, 0, {}, TRUE),
           Call("Run", cmd.TargetName, cmd.DryRun, 0, {}, err)>>
    ELSE <<Call("Run", cmd.TargetName, cmd.DryRun, 0, {}, err)>>

\* the planner calls of one update: ApplyCmd.Run once, its error returned
updateCalls(cmd, err) == <<Call("Run", cmd.TargetName, cmd.DryRun, 0, {}, err)>>

\* update returns: Run on the direct target
Update ==
    /\ pc = "inUpdate"
    /\ applyCmd # NULL
    /\ LET cmd0 == updateMode(applyCmd)
       IN \E fail \in BOOLEAN, done \in SUBSET ChangedTasks(cmd0, cloud) :
            LET err == fail \/ FindFails(cmd0, cloud)
            IN /\ err \/ done = ChangedTasks(cmd0, cloud)
               /\ cloud' = RenderAll(done, cloud)
               /\ applyCmd' = [cmd0 EXCEPT !.Target = [kind |-> "OpenstackAPITarget",
                                                       changes |-> <<>>],
                                           !.TaskMap = TaskMapOf(cmd0)]
               /\ calls' = calls \o updateCalls(cmd0, err)
               /\ log' = IF err
                         THEN Append(log, ReportError(impl, "Error updating cluster",
                                                      "update error"))
                         ELSE log
               /\ pc' = AfterUpdate(err)
    /\ UNCHANGED <<shutdown, impl, opts, store, prevUpdate, env, exitCode>>

----------------------------------------------------------------------------
(* The environment of the controller *)

\* an operator edits the instance group in the state store
EditInstanceGroup ==
    /\ pc # "exited"
    /\ \E k \in 0..MaxSize : k # store.MinSize /\ store' = InstanceGroup(k)
    /\ UNCHANGED <<shutdown, impl, pc, opts, applyCmd, cloud, calls, prevUpdate, log, env, exitCode>>

\* a server appears in or disappears from the cloud, outside the controller
ServerChange ==
    /\ pc # "exited"
    /\ \E n \in InstanceNames, k \in 0..MaxSameName :
         /\ k = cloud.servers[n] + 1 \/ k + 1 = cloud.servers[n]
         /\ cloud' = [cloud EXCEPT !.servers[n] = k]
    /\ UNCHANGED <<shutdown, impl, pc, opts, applyCmd, store, calls, prevUpdate, log, env, exitCode>>

\* the security group in the cloud drifts from its declaration
SecurityGroupDrift ==
    /\ pc # "exited"
    /\ ~cloud.sgDrift
    /\ cloud' = [cloud EXCEPT !.sgDrift = TRUE]
    /\ UNCHANGED <<shutdown, impl, pc, opts, applyCmd, store, calls, prevUpdate, log, env, exitCode>>

----------------------------------------------------------------------------

Next ==
    \/ Execute
    \/ MainPart000
    \/ MainAutoscaler
    \/ Sleep
    \/ Invoke
    \/ UpdateApplyCmd
    \/ DryRun
    \/ Update
    \/ EditInstanceGroup
    \/ ServerChange
    \/ SecurityGroupDrift

Spec == Init /\ [][Next]_vars

\* the process is a sequential program: each step of the start and of the
\* loop is taken once it is reached (every external call returns)
FairSpec ==
    /\ Spec
    /\ WF_vars(Execute \/ MainPart000 \/ MainAutoscaler)
    /\ WF_vars(Sleep)
    /\ WF_vars(Invoke)
    /\ WF_vars(UpdateApplyCmd)
    /\ WF_vars(DryRun)
    /\ WF_vars(Update)

\* the steps of the process alone: the state store and the cloud change only
\* by what the controller does
NextProgram ==
    \/ Execute
    \/ MainPart000
    \/ MainAutoscaler
    \/ Sleep
    \/ Invoke
    \/ UpdateApplyCmd
    \/ DryRun
    \/ Update

\* the process in a quiet environment, every step taken once it is reached
QuietFairSpec ==
    /\ Init
    /\ [][NextProgram]_vars
    /\ WF_vars(Execute \/ MainPart000 \/ MainAutoscaler)
    /\ WF_vars(Sleep)
    /\ WF_vars(Invoke)
    /\ WF_vars(UpdateApplyCmd)
    /\ WF_vars(DryRun)
    /\ WF_vars(Update)

\* a shutdown of the running process is requested; no statement of Run,
\* loopUntil or the methods they call reads such a request
RaiseShutdown ==
    /\ pc \in LoopPcs
    /\ ~shutdown
    /\ shutdown' = TRUE
    /\ UNCHANGED <<impl, pc, opts, applyCmd, store, cloud, calls, prevUpdate, log, env,
                   exitCode>>

NextShutdown ==
    \/ NextProgram
    \/ RaiseShutdown

\* the process, every step taken once it is reached, with a shutdown that
\* may be requested at any point of the loop
ShutdownSpec ==
    /\ Init
    /\ [][NextShutdown]_vars
    /\ WF_vars(Execute \/ MainPart000 \/ MainAutoscaler)
    /\ WF_vars(Sleep)
    /\ WF_vars(Invoke)
    /\ WF_vars(UpdateApplyCmd)
    /\ WF_vars(DryRun)
    /\ WF_vars(Update)

\* the process with calls that may never respond: the start is made,
\* time.Sleep returns and the loop makes the call it has reached, but a
\* call to the state store or to the planner is not bound to return
HangSpec ==
    /\ Init
    /\ [][NextProgram]_vars
    /\ WF_vars(Execute \/ MainPart000 \/ MainAutoscaler)
    /\ WF_vars(Sleep)
    /\ WF_vars(Invoke)

----------------------------------------------------------------------------
(* The classifier alone: dryRun after a Run that returned without error *)

\* a task of another cloud whose type name begins with "Instance":
\* fmt.Sprintf("%T", t) of a *gcetasks.InstanceTemplate
InstanceTemplateGoType ==
    <<"*", "g", "c", "e", "t", "a", "s", "k", "s", ".",
      "I", "n", "s", "t", "a", "n", "c", "e", "T", "e", "m", "p", "l", "a", "t", "e">>
InstanceTemplateTask == [goType |-> InstanceTemplateGoType, name |-> <<"t">>]

\* the tasks a command may hold, and the changes a dry run may report
ClassifierTasks ==
    {InstanceTask(i) : i \in 1..MaxSize} \cup {SecurityGroupTask, InstanceTemplateTask}

\* the command as Run leaves it: the task map holds the tasks of T, the
\* dry-run target the changes of plan, in the order of plan
ClassifierCmd(T, plan) ==
    [dryRunMode(NewApplyCmd(Options(<<"c">>, LocalStore, <<>>, <<>>, DefaultSleep),
                            InstanceGroup(0)))
       EXCEPT !.Target = [kind |-> "DryRunTarget", changes |-> plan],
              !.TaskMap = {TaskKey(t) : t \in T}]

ClassifierInit ==
    /\ impl \in Impls
    /\ pc = "classify"
    /\ opts = Options(<<"c">>, LocalStore, <<>>, <<>>, DefaultSleep)
    /\ \E T \in SUBSET ClassifierTasks :
         \E S \in SUBSET T :
           \E plan \in Orderings(S) : applyCmd = ClassifierCmd(T, plan)
    /\ store = InstanceGroup(0)
    /\ cloud = [servers |-> [n \in InstanceNames |-> 0], sgDrift |-> FALSE]
    /\ calls = <<>>
    /\ prevUpdate = "none"
    /\ log = <<>>
    /\ env = EmptyEnv
    /\ exitCode = 0
    /\ shutdown = FALSE

\* dryRun takes its decision and the loop acts on it
Classify ==
    /\ pc = "classify"
    /\ LET needsUpdate == dryRunDecision(impl, applyCmd)
       IN /\ pc' = AfterDryRun(FALSE, needsUpdate)
          /\ log' = IF needsUpdate
                    THEN Append(log, Info("Found instance in tasks running update --yes"))
                    ELSE log
    /\ UNCHANGED <<shutdown, impl, opts, applyCmd, store, cloud, calls, prevUpdate, env,
                   exitCode>>

ClassifierSpec == ClassifierInit /\ [][Classify]_vars

----------------------------------------------------------------------------
(* Reading an iteration's record *)

\* the call is a planner Run on the direct target (the mutating apply)
IsApply(c) == c.op = "Run" /\ ~c.dryRun
\* the call is a planner Run in dry-run mode
IsDryRun(c) == c.op = "Run" /\ c.dryRun
\* the call is one of the two state-store calls of the fetch
IsFetch(c) == c.op \in {"GetCluster", "List"}

\* the plan holds a change whose kind is the compute instance
HasInstanceChange(plan) == \E t \in plan : t.goType = InstanceGoType

\* calls records an iteration of the loop (not the start of the process)
InIteration == calls # <<>> /\ calls[1].op = "Sleep"

\* the last call of the iteration is a dry run that returned without error
DryRunJustSucceeded ==
    /\ InIteration
    /\ IsDryRun(calls[Len(calls)])
    /\ ~calls[Len(calls)].err

Applies == {i \in 1..Len(calls) : IsApply(calls[i])}

\* the loop is at the call of update or inside it
UpdateCalled == pc \in {"update", "inUpdate"}

----------------------------------------------------------------------------
(* Claims *)

\* C1: in an iteration of Run (start.go) or loopUntil (part_000), every
\* mutating apply directly follows a dry run of the same iteration that
\* returned without error and whose plan holds an instance change; after an
\* empty plan or a plan without an instance change there is no apply.
C1_ApplyOnlyAfterInstancePlan ==
    impl \in {"start", "part000"} =>
      \A i \in Applies :
        /\ i > 1
        /\ IsDryRun(calls[i-1])
        /\ ~calls[i-1].err
        /\ HasInstanceChange(calls[i-1].plan)

C1_Witness ==
    /\ impl = "part000"
    /\ InIteration
    /\ Applies # {}

\* C2: after a dry run that returned a plan with at least one instance
\* change, dryRun's decision is true (the loop is about to call update),
\* whatever else the plan holds.
C2_InstanceChangeDecidesTrue ==
    (impl \in {"start", "part000"} /\ DryRunJustSucceeded
       /\ HasInstanceChange(calls[Len(calls)].plan))
      => UpdateCalled

\* C3: after a dry run whose plan holds only non-instance changes, dryRun's
\* decision is false, also when the task map holds instance tasks that have
\* no pending change.
C3_NonInstancePlanDecidesFalse ==
    (impl \in {"autoscaler", "part000"} /\ DryRunJustSucceeded
       /\ calls[Len(calls)].plan # {}
       /\ ~HasInstanceChange(calls[Len(calls)].plan))
      => pc = "sleep"

\* C4: after a dry run that returned a plan with zero changes, dryRun's
\* decision is false and it has reported no error.
C4_EmptyPlanDecidesFalse ==
    (DryRunJustSucceeded /\ calls[Len(calls)].plan = {})
      => /\ pc = "sleep"
         /\ \A k \in 1..Len(log) : ~IsErrorLine(log[k])

C4_Witness ==
    /\ impl = "part000"
    /\ DryRunJustSucceeded
    /\ calls[Len(calls)].plan = {}
    /\ applyCmd.InstanceGroups[1].MinSize > 0
    /\ pc = "sleep"

\* C5: an iteration whose dry run reported an instance change has called
\* the mutating apply exactly once by the time the loop sleeps again.
C5_InstancePlanAppliedOnce ==
    (impl \in {"start", "part000"} /\ pc = "sleep" /\ InIteration
       /\ \E i \in 1..Len(calls) :
            IsDryRun(calls[i]) /\ ~calls[i].err /\ HasInstanceChange(calls[i].plan))
      => Cardinality(Applies) = 1

\* the instance group declares more members than the cloud holds servers
RECURSIVE CountServers(_, _)
CountServers(names, servers) ==
    IF names = {} THEN 0
    ELSE LET n == CHOOSE x \in names : TRUE
         IN servers[n] + CountServers(names \ {n}, servers)

ScaleUpNeeded == store.MinSize > CountServers(InstanceNames, cloud.servers)

\* a call of the current iteration returned an error
CallFailed == \E i \in 1..Len(calls) : calls[i].err

\* C6: while the instance group's minimum size is larger than the number of
\* servers in the cloud and the state store and planner calls succeed, the
\* running application (start.go) eventually executes the mutating update.
C6_ScaleUpEventually ==
    (impl = "start" /\ pc \in LoopPcs /\ ScaleUpNeeded)
      ~> (Applies # {} \/ ~ScaleUpNeeded \/ CallFailed)

\* the same statement of the loop of part_000, which does scan the plan
C6_ScaleUpEventuallyPart000 ==
    (impl = "part000" /\ pc \in LoopPcs /\ ScaleUpNeeded)
      ~> (Applies # {} \/ ~ScaleUpNeeded \/ CallFailed)

\* C7: an iteration whose state fetch failed (the cluster was not retrieved,
\* or the instance groups were not listed) has made no planner call, has
\* reported the error, and the loop waits for the next tick.
C7_FetchFailureSkipsPlanner ==
    (InIteration /\ \E i \in 1..Len(calls) : IsFetch(calls[i]) /\ calls[i].err)
      => /\ \A j \in 1..Len(calls) : calls[j].op # "Run"
         /\ \E k \in 1..Len(log) : IsErrorLine(log[k])
         /\ pc = "sleep"

C7_Witness ==
    /\ impl = "start"
    /\ InIteration
    /\ \E i \in 1..Len(calls) : calls[i].op = "List" /\ calls[i].err
    /\ applyCmd = NULL
    /\ pc = "sleep"

\* C8: an iteration whose dry run failed has not called the mutating apply,
\* has reported the error, and the loop waits for the next tick.
C8_DryRunFailureSkipsApply ==
    (InIteration /\ \E i \in 1..Len(calls) : IsDryRun(calls[i]) /\ calls[i].err)
      => /\ Applies = {}
         /\ \E k \in 1..Len(log) : IsErrorLine(log[k])
         /\ pc = "sleep"

C8_Witness ==
    /\ impl = "autoscaler"
    /\ InIteration
    /\ \E i \in 1..Len(calls) : IsDryRun(calls[i]) /\ calls[i].err
    /\ pc = "sleep"

\* C9: after an iteration whose apply failed the loop is still running, and
\* an apply of the next iteration comes only after that iteration has
\* fetched the desired state and computed a dry-run plan of its own.
C9_ReevaluateAfterFailedApply ==
    prevUpdate = "failed" =>
      /\ pc \in LoopPcs
      /\ \A i \in Applies :
           \E f, d \in 1..Len(calls) :
             /\ f < d /\ d < i
             /\ calls[f].op = "List" /\ ~calls[f].err
             /\ IsDryRun(calls[d]) /\ ~calls[d].err

\* a step taken inside the loop ends inside the loop, with no exit code set
StaysInLoop == pc \in LoopPcs => (pc' \in LoopPcs /\ exitCode' = 0)

\* C10: once the loop has been entered the process stays in it: no step
\* taken inside the loop (whatever the state fetch, the dry run or the apply
\* returned) leaves it or sets an exit code.
C10_LoopNeverReturns == [][StaysInLoop]_vars

C10_Witness ==
    /\ pc \in LoopPcs
    /\ prevUpdate = "failed"
    /\ CallFailed

\* the loop has just woken up and is about to ask the state store for the
\* cluster and its instance groups: a new iteration attempts the state fetch
FetchAttempted == pc = "updateApplyCmd" /\ Len(calls) = 1 /\ calls[1].op = "Sleep"

\* C11: in Run (start.go) and loopUntil (part_000), whatever the external
\* calls return (every one of them may fail in every iteration), as long as
\* each call returns the loop keeps ticking: from every state of the loop a
\* new iteration that again attempts the state fetch is eventually started,
\* hence infinitely often.
C11_LoopKeepsTicking ==
    (impl \in {"start", "part000"} /\ pc \in LoopPcs) ~> FetchAttempted

C11_Witness ==
    /\ impl = "part000"
    /\ FetchAttempted
    /\ prevUpdate = "failed"

\* a call to the state store (GetCluster or List) has returned an error
FetchFailed == \E i \in 1..Len(calls) : IsFetch(calls[i]) /\ calls[i].err

\* C12: the process ends with a non-zero exit code only on a configuration
\* error of the start (a required setting absent, or a state-store location
\* that does not parse); it has never ended, nor set a non-zero exit code,
\* after a failed fetch of the cluster or of its instance groups, the first
\* fetch after the start included.
C12_FetchFailureNeverExits ==
    (pc = "exited" \/ exitCode # 0) => ~FetchFailed

\* the messages that name a configuration input these options leave empty
MissingFieldErrors(o) ==
    (IF o.ClusterName = <<>> THEN {ErrName} ELSE {})
      \cup (IF o.StateStore = <<>> THEN {ErrStateStore} ELSE {})
      \cup (IF o.AccessKey = <<>> THEN {ErrAccessKey} ELSE {})
      \cup (IF o.SecretKey = <<>> THEN {ErrSecretKey} ELSE {})

\* C13: when Execute (start.go) was started with the cluster name, the
\* state-store location, the access key or the secret key missing, the
\* process has exited with a non-zero code, the last thing it printed is an
\* error that names a missing input, and the loop was not entered.
C13_MissingInputFailsStart ==
    (impl = "start" /\ pc # "main" /\ MissingFieldErrors(opts) # {})
      => /\ pc = "exited"
         /\ exitCode # 0
         /\ log # <<>>
         /\ log[Len(log)].stream = "stderr"
         /\ log[Len(log)].msg \in MissingFieldErrors(opts)

\* C14: Execute (start.go) started with a --sleep that is not greater than
\* zero never enters the loop, and no time.Sleep of the loop is called with
\* an interval that is not greater than zero.
C14_NonPositiveSleepRejected ==
    impl = "start" =>
      /\ opts.Sleep <= 0 => pc \notin LoopPcs
      /\ \A i \in 1..Len(calls) : calls[i].op = "Sleep" => calls[i].d > 0

\* the step has changed the position of the loop or its record of calls
LoopMoved == pc' # pc \/ calls' # calls

\* the step has appended k calls to the record of the iteration
Appended(k) ==
    /\ Len(calls') = Len(calls) + k
    /\ SubSeq(calls', 1, Len(calls)) = calls

\* a step of a process whose loop makes its calls one after the other: the
\* step that calls a method leaves the loop inside that method; while the
\* loop is inside a method the only thing it does is to return from it, with
\* the calls of that method appended; a new iteration begins only from the
\* sleep, where no call is in flight
SerialStep ==
    /\ (pc = "updateApplyCmd" /\ LoopMoved) => (pc' = "inUpdateApplyCmd" /\ calls' = calls)
    /\ (pc = "dryRun" /\ LoopMoved) => (pc' = "inDryRun" /\ calls' = calls)
    /\ (pc = "update" /\ LoopMoved) => (pc' = "inUpdate" /\ calls' = calls)
    /\ (pc = "inUpdateApplyCmd" /\ LoopMoved) =>
         /\ Appended(1) \/ Appended(2)
         /\ \A i \in (Len(calls) + 1)..Len(calls') : IsFetch(calls'[i])
         /\ pc' \in {"sleep", "dryRun"}
    /\ (pc = "inDryRun" /\ LoopMoved) =>
         /\ Appended(1)
         /\ IsDryRun(calls'[Len(calls')])
         /\ pc' \in {"sleep", "update"}
    /\ (pc = "inUpdate" /\ LoopMoved) =>
         /\ Appended(1)
         /\ IsApply(calls'[Len(calls')])
         /\ pc' = "sleep"
    /\ (pc = "sleep" /\ LoopMoved) =>
         /\ Len(calls') = 1
         /\ calls'[1].op = "Sleep"
         /\ pc' \in CallPcs

\* C15: the calls of the loop never overlap. While update (the mutating
\* apply) is in flight the loop calls nothing else and starts no new
\* iteration, so at most one apply is in flight and the next one is called
\* strictly after it has returned; the same holds of the state fetch and of
\* the dry run, and the calls of an iteration begin only after the sleep
\* that follows the return of the last call of the iteration before.
C15_CallsNeverOverlap == [][SerialStep]_vars

\* an apply is in flight while the state store still changes
C15_Witness ==
    /\ pc = "inUpdate"
    /\ InIteration
    /\ IsDryRun(calls[Len(calls)])
    /\ store.MinSize # applyCmd.InstanceGroups[1].MinSize

\* a convergence is in flight: the loop is inside update
Converging == pc = "inUpdate"

\* C16: the code keeps no busy flag; what such a flag would say, that a
\* convergence is in flight, is the loop being inside update. Once update
\* has returned, with or without error, no convergence is in flight and the
\* loop waits for the next tick; and in the iteration after a failed update
\* a dry run that reports an instance change leads to update again (part_000,
\* autoscaler.go; start.go never reaches update).
C16_NothingHeldAfterUpdate ==
    /\ (InIteration /\ Applies # {}) => (~Converging /\ pc = "sleep")
    /\ (impl # "start" /\ prevUpdate = "failed" /\ DryRunJustSucceeded
          /\ HasInstanceChange(calls[Len(calls)].plan))
         => UpdateCalled

\* update is in flight again in the iteration after a failed update
C16_Witness ==
    /\ prevUpdate = "failed"
    /\ Converging
    /\ IsDryRun(calls[Len(calls)])

\* C17: update does not retry. The record of an iteration holds at most one
\* mutating apply, also when that apply failed; it is the last call of the
\* iteration, and its error reached the loop: the loop has reported an
\* error as the last thing of the iteration exactly when the apply failed.
C17_UpdateAppliesOnce ==
    /\ Cardinality(Applies) <= 1
    /\ \A i \in Applies :
         /\ i = Len(calls)
         /\ pc = "sleep"
         /\ calls[i].err <=> IsErrorLine(log[Len(log)])

\* an iteration whose one apply failed
C17_Witness ==
    /\ impl = "part000"
    /\ InIteration
    /\ \E i \in Applies : calls[i].err
    /\ log[Len(log)] = Stderr("update error")

\* C18: in the iteration that follows an apply, when the dry run returns a
\* plan without instance change the decision is false: the loop does not
\* call update and the iteration ends without an apply.
C18_NoApplyOnceConverged ==
    (prevUpdate # "none" /\ InIteration
       /\ \E d \in 1..Len(calls) :
            IsDryRun(calls[d]) /\ ~calls[d].err /\ ~HasInstanceChange(calls[d].plan))
      => (~UpdateCalled /\ Applies = {})

\* the place of a call in the order of an iteration
StepOf(c) ==
    CASE c.op = "Sleep" -> 1
      [] c.op = "GetCluster" -> 2
      [] c.op = "List" -> 3
      [] IsDryRun(c) -> 4
      [] IsApply(c) -> 5

\* C19: in Run (start.go) and loopUntil (part_000) the calls of an iteration
\* come in one order: the sleep, then the fetch of the cluster and of its
\* instance groups, then the dry run, then (after dryRun's decision) the
\* apply. No call is made before the sleep has returned, each call comes
\* only after the one before it has returned without error, and an apply
\* comes after the decision was logged.
C19_IterationOrder ==
    (impl \in {"start", "part000"} /\ InIteration) =>
      /\ \A i \in 1..Len(calls) :
           /\ StepOf(calls[i]) = i
           /\ i < Len(calls) => ~calls[i].err
      /\ Applies # {} =>
           \E k \in 1..Len(log) :
             log[k] = Info("Found instance in tasks running update --yes")

\* an iteration that went through all five steps
C19_Witness ==
    /\ impl = "part000"
    /\ InIteration
    /\ Len(calls) = 5
    /\ IsApply(calls[5])

\* C20: the dry run and the apply of an iteration use a snapshot fetched in
\* that iteration: every planner Run of the iteration comes after a fetch of
\* the same iteration in which the cluster and its instance groups were
\* retrieved without error.
C20_SnapshotFetchedInIteration ==
    InIteration =>
      \A r \in 1..Len(calls) :
        calls[r].op = "Run" =>
          \E g, l \in 1..Len(calls) :
            /\ g < l /\ l < r
            /\ calls[g].op = "GetCluster" /\ ~calls[g].err
            /\ calls[l].op = "List" /\ ~calls[l].err

\* a step of dryRun or update leaves the snapshot of the command as it was
SnapshotKept ==
    (pc \in {"inDryRun", "inUpdate"} /\ applyCmd # NULL) =>
      /\ applyCmd' # NULL
      /\ applyCmd'.Cluster = applyCmd.Cluster
      /\ applyCmd'.InstanceGroups = applyCmd.InstanceGroups

\* C21: once updateApplyCmd has built the command of an iteration, dryRun
\* and update do not modify its cluster nor its instance groups: they set
\* the target name, the dry-run flag and the task options, and Run leaves
\* its target and task map in the command.
C21_SnapshotNotMutated == [][SnapshotKept]_vars

\* an iteration in which the dry run and the update both ran on a snapshot
\* with a member
C21_Witness ==
    /\ impl = "part000"
    /\ InIteration
    /\ Applies # {}
    /\ applyCmd.TargetName = TargetDirect
    /\ applyCmd.InstanceGroups[1].MinSize > 0

\* C22: after a shutdown has been requested the loop of Run (start.go) and
\* of loopUntil (part_000) starts no new iteration and eventually exits
\* with exit code 0.
C22_ShutdownStopsLoop ==
    (impl \in {"start", "part000"} /\ shutdown /\ pc \in LoopPcs)
      ~> (pc = "exited" /\ exitCode = 0)

\* C23: a call of the loop of Run (start.go) to the state store or to the
\* planner that does not respond is given up after a bounded wait: from
\* every state in which a call is in flight, a later iteration is
\* eventually started, also when the call never returns.
C23_HungCallGivenUp ==
    (impl = "start" /\ pc \in InCallPcs) ~> FetchAttempted

\* the line is the record of a decision of dryRun
IsDecisionLine(l) == l = Info("Found instance in tasks running update --yes")

\* C24: in Run (start.go) and loopUntil (part_000), an iteration whose dry
\* run returned without error has logged the decision of dryRun, whether
\* the decision was to update or not, and an iteration in which the state
\* fetch, the dry run or the apply failed has logged an error.
C24_DecisionAndErrorLogged ==
    (impl \in {"start", "part000"} /\ InIteration /\ pc = "sleep") =>
      /\ (\E d \in 1..Len(calls) : IsDryRun(calls[d]) /\ ~calls[d].err)
           => \E k \in 1..Len(log) : IsDecisionLine(log[k])
      /\ CallFailed => \E k \in 1..Len(log) : IsErrorLine(log[k])

\* the instance group declares a maximum smaller than the number of servers
\* in the cloud
ScaleDownNeeded == store.MaxSize < CountServers(InstanceNames, cloud.servers)

\* C25: while the instance group's maximum size is smaller than the number
\* of servers in the cloud and the state store and planner calls succeed,
\* the running application (loopUntil of part_000) eventually runs the
\* mutating update and the excess servers are removed.
C25_ScaleDownEventually ==
    (impl = "part000" /\ pc \in LoopPcs /\ ScaleDownNeeded)
      ~> (~ScaleDownNeeded \/ CallFailed)

\* update has returned in this step
UpdateReturns == pc = "inUpdate" /\ pc' # pc

\* C26: the apply is idempotent. A step of update creates a server only
\* under a name for which no server existed, and then exactly one; a server
\* that exists is left as it is, no server is removed; and an update that
\* runs when the command's tasks do not differ from the cloud changes
\* nothing in the cloud.
C26_ApplyIdempotent ==
    [][UpdateReturns =>
         /\ \A n \in InstanceNames :
              cloud'.servers[n] # cloud.servers[n]
                => (cloud.servers[n] = 0 /\ cloud'.servers[n] = 1)
         /\ ChangedTasks(applyCmd, cloud) = {} => cloud' = cloud]_vars

\* a second successful update in a row has returned, with the declared
\* instance in the cloud once
C26_Witness ==
    /\ prevUpdate = "ok"
    /\ \E i \in Applies : ~calls[i].err
    /\ applyCmd.InstanceGroups[1].MinSize = 1
    /\ cloud.servers[InstanceName(1)] = 1

\* the changes of the command's dry-run target, as a set
PlanOf(cmd) == {cmd.Target.changes[j] : j \in 1..Len(cmd.Target.changes)}

\* the keys of the compute instances
InstanceKeys == {TaskKey(InstanceTask(i)) : i \in 1..MaxSize}

\* C27: what makes a change instance-affecting is that its kind is the
\* compute instance (openstacktasks.Instance). When neither the plan nor
\* the task map holds a compute instance, the decision of dryRun (part_000,
\* autoscaler.go) is false, also when a change has a type name that merely
\* begins with "Instance".
C27_OnlyComputeInstanceCounts ==
    (impl \in {"part000", "autoscaler"} /\ pc # "classify"
       /\ ~HasInstanceChange(PlanOf(applyCmd))
       /\ applyCmd.TaskMap \cap InstanceKeys = {})
      => pc = "sleep"

\* updateApplyCmd has returned in this step
UpdateApplyCmdReturns == pc = "inUpdateApplyCmd" /\ pc' # pc

\* C28: when updateApplyCmd of the loop (start.go, part_000) fails, at the
\* retrieval of the cluster or at the list of its instance groups, the
\* controller's command is exactly what it was before the call; when both
\* steps succeed the command is replaced as a whole by one built from what
\* was fetched.
C28_FailedRefreshKeepsCommand ==
    [][UpdateApplyCmdReturns =>
         IF calls'[Len(calls')].err
         THEN applyCmd' = applyCmd
         ELSE applyCmd' = NewApplyCmd(opts, store)]_vars

\* the list of instance groups failed in an iteration, and the command is
\* still the one of an earlier iteration, with the plan of its dry run
C28_Witness ==
    /\ InIteration
    /\ \E i \in 1..Len(calls) : calls[i].op = "List" /\ calls[i].err
    /\ applyCmd # NULL
    /\ applyCmd.Target # NULL
    /\ applyCmd.InstanceGroups[1] # store

\* the decision the loop has acted on
Decided == pc = "update"

\* the plan holds a change that dryRun of part_000 takes for an instance
HasInstanceNamed(plan) == \E t \in plan : HasPrefix(getTaskName(t), InstancePrefix)

\* C29: the decision of dryRun (part_000, autoscaler.go) is a function of
\* the set of changes of the plan (and of the task map), not of their order
\* nor of their number: every ordering of the same changes gets the decision
\* that was taken; in part_000 a plan gets the decision of every plan that
\* agrees with it on whether any change is taken for an instance, be it one
\* or several; in autoscaler.go a plan gets the decision of every plan that
\* agrees with it on being empty.
C29_DecisionIgnoresOrderAndCount ==
    (impl \in {"part000", "autoscaler"} /\ pc # "classify") =>
      /\ \A q \in Orderings(PlanOf(applyCmd)) :
           dryRunDecision(impl, [applyCmd EXCEPT !.Target.changes = q]) = Decided
      /\ impl = "part000" =>
           \A S \in SUBSET ClassifierTasks :
             (HasInstanceNamed(S) = HasInstanceNamed(PlanOf(applyCmd))) =>
               \A q \in Orderings(S) :
                 dryRunDecision(impl, [applyCmd EXCEPT !.Target.changes = q]) = Decided
      /\ impl = "autoscaler" =>
           \A S \in SUBSET ClassifierTasks :
             ((S = {}) = (PlanOf(applyCmd) = {})) =>
               \A q \in Orderings(S) :
                 dryRunDecision(impl, [applyCmd EXCEPT !.Target.changes = q]) = Decided

\* a plan of three changes with two instances after a security group
C29_Witness ==
    /\ impl = "part000"
    /\ pc = "update"
    /\ Len(applyCmd.Target.changes) = 3
    /\ applyCmd.Target.changes[1] = SecurityGroupTask
    /\ applyCmd.Target.changes[2].goType = InstanceGoType
    /\ applyCmd.Target.changes[3].goType = InstanceGoType

\* dryRun has returned in this step
DryRunReturns == pc = "inDryRun" /\ pc' # pc

\* the step has recorded a planner Run
RunRecorded ==
    /\ Len(calls') > Len(calls)
    /\ calls'[Len(calls')].op = "Run"

\* the last call the step has recorded is a Run on the dry-run target with
\* the dry-run flag set
LastRunIsDry ==
    /\ calls'[Len(calls')].target = TargetDryRun
    /\ calls'[Len(calls')].dryRun

\* C30: the Run that dryRun issues is in dry-run mode (the target is the
\* dry-run target and DryRun is true) in every iteration, also after an
\* update has left the command in direct mode; a Run that is not in dry-run
\* mode is issued by update only.
C30_DryRunRunsInDryRunMode ==
    [][/\ DryRunReturns => (RunRecorded /\ LastRunIsDry)
       /\ (RunRecorded /\ ~LastRunIsDry) =>
            /\ pc = "inUpdate"
            /\ calls'[Len(calls')].target = TargetDirect
            /\ ~calls'[Len(calls')].dryRun]_vars

\* in autoscaler.go, whose command lives on from one iteration to the next,
\* the dry run of the iteration after an update has run in dry-run mode
C30_Witness ==
    /\ impl = "autoscaler"
    /\ prevUpdate = "ok"
    /\ InIteration
    /\ Len(calls) >= 2
    /\ calls[2].op = "Run"
    /\ calls[2].target = TargetDryRun
    /\ calls[2].dryRun

----------------------------------------------------------------------------
(* C31 *)

\* the loop is at or inside a method that dereferences the ApplyCmd
UsesApplyCmd == pc \in {"dryRun", "inDryRun", "update", "inUpdate"}

\* C31: dryRun and update are never called, and never run, while the
\* controller's ApplyCmd is unset; an iteration whose fetch failed with the
\* command still unset has skipped its remaining steps and waits for the next
C31_NoCallOnUnsetCommand ==
    applyCmd = NULL =>
      /\ ~UsesApplyCmd
      /\ (InIteration /\ FetchFailed) =>
           /\ pc = "sleep"
           /\ \A i \in 1..Len(calls) : calls[i].op # "Run"

\* the fetch of an iteration of start.go has failed while no command has
\* ever been built, and the loop has gone back to sleep
C31_Witness ==
    /\ impl = "start"
    /\ applyCmd = NULL
    /\ InIteration
    /\ FetchFailed
    /\ pc = "sleep"

----------------------------------------------------------------------------
(* C32 *)

\* the cluster and the instance groups of a command
Snapshot(cmd) == [Cluster |-> cmd.Cluster, InstanceGroups |-> cmd.InstanceGroups]

\* a step in which update returns: the call before it was the successful dry
\* run of the iteration, whose task map was built from the snapshot the
\* command holds; the step adds one planner Run on the direct target and
\* nothing else, and that Run builds the same task map from the same snapshot
ApplyOnDryRunSnapshot ==
    UpdateReturns =>
      /\ DryRunJustSucceeded
      /\ applyCmd.TaskMap = TaskMapOf(applyCmd)
      /\ Len(calls') = Len(calls) + 1
      /\ SubSeq(calls', 1, Len(calls)) = calls
      /\ IsApply(calls'[Len(calls')])
      /\ Snapshot(applyCmd') = Snapshot(applyCmd)
      /\ applyCmd'.TaskMap = applyCmd.TaskMap

\* C32: the apply of an iteration uses the same snapshot (cluster and
\* instance groups) as the dry run that triggered it: no fetch from the state
\* store happens between the dry run and the apply, also when the instance
\* group was edited in the store in between.
C32_ApplyUsesDryRunSnapshot == [][ApplyOnDryRunSnapshot]_vars

\* an apply has followed its dry run on a snapshot that the state store no
\* longer holds
C32_Witness ==
    /\ impl = "part000"
    /\ pc = "sleep"
    /\ Len(calls) > 1
    /\ IsApply(calls[Len(calls)])
    /\ IsDryRun(calls[Len(calls) - 1])
    /\ applyCmd.InstanceGroups[1] # store
    /\ applyCmd.TaskMap = TaskMapOf(applyCmd)

----------------------------------------------------------------------------
(* validate over every combination of options and environment *)

DoStore == DoScheme \o <<"b">>

\* state-store locations: none, the two schemes that need keys, a local path,
\* a scheme alone, and locations that only resemble a scheme
ValidateStores ==
    { <<>>, S3Store, DoStore, LocalStore, S3Scheme,
      <<"s", "3", ":", "/">>, <<"x">> \o S3Scheme, <<"S", "3", ":", "/", "/", "b">> }

\* the options Execute can be started with: each flag defaults to its
\* environment variable and can be given any value, the empty one included
ValidateOptions ==
    { Options(n, st, ak, sk, DefaultSleep) :
        n \in {<<>>, <<"c">>}, st \in ValidateStores,
        ak \in {<<>>, <<"k">>}, sk \in {<<>>, <<"k">>} }

\* the environment of the process at its start: each variable unset or set
ValidateEnvs ==
    [KOPS_STATE_STORE : {<<>>, <<"e">>}, S3_ACCESS_KEY_ID : {<<>>, <<"e">>},
     S3_SECRET_ACCESS_KEY : {<<>>, <<"e">>}, KOPS_FEATURE_FLAGS : {<<>>, <<"f">>}]

ValidateInit ==
    /\ impl = "start"
    /\ pc = "main"
    /\ opts \in ValidateOptions
    /\ applyCmd = NULL
    /\ store = InstanceGroup(0)
    /\ cloud = [servers |-> [n \in InstanceNames |-> 0], sgDrift |-> FALSE]
    /\ calls = <<>>
    /\ prevUpdate = "none"
    /\ log = <<>>
    /\ env \in ValidateEnvs
    /\ exitCode = 0
    /\ shutdown = FALSE

\* Execute runs validate on the options and the environment
ValidateSpec == ValidateInit /\ [][Execute]_vars

----------------------------------------------------------------------------
(* C33 *)

\* the location begins with "s3://" or with "do://"
BeginsWithScheme(st) ==
    /\ Len(st) >= 5
    /\ <<st[1], st[2], st[3], st[4], st[5]>> \in {S3Scheme, DoScheme}

KeyErrors == {ErrAccessKey, ErrSecretKey}

\* the error for the first field that is missing, in the order cluster name,
\* state store, access key, secret key, the keys counting only for a
\* location with a scheme
FirstMissing(o) ==
    IF o.ClusterName = <<>> THEN ErrName
    ELSE IF o.StateStore = <<>> THEN ErrStateStore
    ELSE IF BeginsWithScheme(o.StateStore) /\ o.AccessKey = <<>> THEN ErrAccessKey
    ELSE IF BeginsWithScheme(o.StateStore) /\ o.SecretKey = <<>> THEN ErrSecretKey
    ELSE NoError

\* C33: with a cluster name and a state store, validate returns an error for
\* an empty access key or secret key exactly when the state-store location
\* begins with "s3://" or "do://", and succeeds for any other location even
\* with both keys empty; in every case the error names the first missing
\* field in the order cluster name, state store, access key, secret key; and
\* Execute exits with that error, or goes on when there is none.
C33_ValidateCredentialRule ==
    LET v == validate(opts, env)
    IN /\ (opts.ClusterName # <<>> /\ opts.StateStore # <<>>) =>
            /\ v.err \in KeyErrors <=>
                 /\ BeginsWithScheme(opts.StateStore)
                 /\ opts.AccessKey = <<>> \/ opts.SecretKey = <<>>
            /\ ~BeginsWithScheme(opts.StateStore) => v.err = NoError
       /\ v.err = FirstMissing(opts)
       /\ (pc # "main" /\ FirstMissing(opts) # NoError) =>
            /\ pc = "exited"
            /\ log = <<Stderr(FirstMissing(opts))>>
       /\ (pc # "main" /\ FirstMissing(opts) = NoError) =>
            \/ pc = "sleep" /\ log = <<>>
            \/ pc = "exited" /\ log = <<Stderr("error parsing registry path")>>

\* Execute has exited on the access key, with an s3:// location and both
\* keys missing
C33_Witness ==
    /\ pc = "exited"
    /\ opts.StateStore = S3Store
    /\ opts.AccessKey = <<>>
    /\ opts.SecretKey = <<>>
    /\ log = <<Stderr(ErrAccessKey)>>

----------------------------------------------------------------------------
(* C34 *)

EnvNames == {"KOPS_STATE_STORE", "S3_ACCESS_KEY_ID", "S3_SECRET_ACCESS_KEY",
             "KOPS_FEATURE_FLAGS"}

\* the value validate gives a variable it fills
FillValue(x, o) ==
    CASE x = "KOPS_STATE_STORE" -> o.StateStore
      [] x = "S3_ACCESS_KEY_ID" -> o.AccessKey
      [] x = "S3_SECRET_ACCESS_KEY" -> o.SecretKey
      [] x = "KOPS_FEATURE_FLAGS" -> FeatureFlags

\* the variables validate has not yet come to when it returns the error
NotYetReached(errText) ==
    CASE errText \in {ErrName, ErrStateStore} -> EnvNames
      [] errText = ErrAccessKey -> EnvNames \ {"KOPS_STATE_STORE"}
      [] errText = ErrSecretKey -> {"S3_SECRET_ACCESS_KEY", "KOPS_FEATURE_FLAGS"}
      [] OTHER -> {}

\* the step of Execute that runs validate: a variable with a value keeps it,
\* a variable that changes was empty and gets the value of its option, and a
\* validate that failed has left the variables of the later checks alone
ValidateFrame ==
    (pc = "main" /\ pc' # pc) =>
      /\ \A x \in EnvNames :
           /\ env[x] # <<>> => env'[x] = env[x]
           /\ env'[x] # env[x] => env'[x] = FillValue(x, opts) /\ env'[x] # <<>>
      /\ (pc' = "exited" /\ log' # <<>>) =>
           \A x \in NotYetReached(log'[Len(log')].msg) : env'[x] = env[x]

\* C34: validate never overwrites an environment variable that is set to a
\* non-empty value (KOPS_STATE_STORE, S3_ACCESS_KEY_ID, S3_SECRET_ACCESS_KEY,
\* KOPS_FEATURE_FLAGS); it only fills variables that are empty, and when it
\* returns the error of a missing field it has set no variable that belongs
\* to a later check.
C34_ValidateEnvFrame == [][ValidateFrame]_vars

\* validate has failed on the secret key: the state store that was set in
\* the environment has kept its value, the access key was filled from the
\* option, the secret key and the feature flags are still unset
C34_Witness ==
    /\ pc = "exited"
    /\ log = <<Stderr(ErrSecretKey)>>
    /\ opts.StateStore = S3Store
    /\ env.KOPS_STATE_STORE = <<"e">>
    /\ env.S3_ACCESS_KEY_ID = opts.AccessKey
    /\ env.S3_SECRET_ACCESS_KEY = <<>>
    /\ env.KOPS_FEATURE_FLAGS = <<>>

----------------------------------------------------------------------------
(* C35 *)

\* the number of servers in the cloud that carry the name
ServersNamed(n) == cloud.servers[n]

\* the only server of the name
TheServer(n) == [ID |-> n \o <<"-", "1">>, Name |-> n]

\* C35: Instance.Find reports the live state of a desired instance by name.
\* With no server of the name it returns no actual instance and no error,
\* and the planner holds the instance to be created; with exactly one it
\* returns that server as actual, with no error, and leaves the server's ID
\* in the desired instance, and the planner does not create; with more than
\* one it returns an error, no actual instance and no ID, and the planner's
\* Run fails.
C35_FindByName ==
    \A i \in 1..MaxSize :
      LET e == InstanceTask(i)
          r == Find(e, cloud.servers)
          declared == applyCmd # NULL /\ e \in InstanceTasksOf(applyCmd)
      IN /\ ServersNamed(e.name) = 0 =>
              /\ r.actual = NULL /\ ~r.err /\ r.id = NULL
              /\ ShouldCreate(r.actual)
              /\ declared => e \in ChangedTasks(applyCmd, cloud)
         /\ ServersNamed(e.name) = 1 =>
              /\ r.actual = TheServer(e.name) /\ ~r.err /\ r.id = TheServer(e.name).ID
              /\ ~ShouldCreate(r.actual)
              /\ declared => e \notin ChangedTasks(applyCmd, cloud)
         /\ ServersNamed(e.name) > 1 =>
              /\ r.actual = NULL /\ r.err /\ r.id = NULL
              /\ declared => (FindFails(applyCmd, cloud) /\ e \notin ChangedTasks(applyCmd, cloud))

\* a dry run has just planned the creation of the second declared instance
\* and not of the first, which has its one server
C35_Witness ==
    /\ impl = "part000"
    /\ DryRunJustSucceeded
    /\ applyCmd.InstanceGroups[1].MinSize = 2
    /\ calls[Len(calls)].plan = {InstanceTask(2)}
    /\ ServersNamed(InstanceName(1)) = 1
    /\ ServersNamed(InstanceName(2)) = 0

====
